---------------------------- MODULE Spec2Model ----------------------------
(***************************************************************************)
(* A model of pubmed_fetcher.py: the Search -> Detail Fetcher -> Extractor *)
(* -> save pipeline of the __main__ block, and its four functions.         *)
(*                                                                         *)
(* The two NCBI endpoints are the environment: every response (status and  *)
(* body) is chosen nondeterministically from bounded sets.  A fetched      *)
(* document is kept as an abstract XML tree; XmlToDict turns it into the   *)
(* dict / list / str / None value that xmltodict.parse returns (an element *)
(* without text or children becomes None, a tag that occurs once maps to   *)
(* its single value, a tag that repeats maps to a list), and the extractor *)
(* is translated statement by statement on that value.  A Python exception *)
(* is the value Raise, which every later statement propagates.  A request  *)
(* always gets a response: connection errors and timeouts of requests.get  *)
(* are not modelled.                                                       *)
(***************************************************************************)
EXTENDS Integers, Sequences, FiniteSets, TLC

VARIABLES
    pc,           \* position in the __main__ block, or in a direct call
    paper_ids,    \* identifiers returned by fetch_pubmed_papers
    searchResp,   \* the esearch response of this run (history)
    fetchResp,    \* the efetch response of this run (history)
    details,      \* value returned by fetch_paper_details / given to the parser
    parsed_data,  \* records returned by parse_pubmed_xml
    file,         \* pubmed_results.json
    console,      \* notices printed so far
    requests,     \* HTTP requests issued so far
    invoked       \* functions entered so far

vars == <<pc, paper_ids, searchResp, fetchResp, details, parsed_data, file,
          console, requests, invoked>>

-----------------------------------------------------------------------------
(* Bounds of the model *)

MaxIds == 2
MaxArticles == 2
MaxAuthors == 2
MaxAffs == 2

(* Program constants *)

RetMax == 10
HTTP_OK == 200

-----------------------------------------------------------------------------
(* Python values *)

PyNone == [t |-> "none"]
PyStr(s) == [t |-> "str", s |-> s]
PyList(xs) == [t |-> "list", xs |-> xs]
PyDict(d) == [t |-> "dict", d |-> d]
EmptyDict == PyDict(<<>>)
Raise == [t |-> "raise"]

\* response.text of a fetch: the document as received
Text(doc) == [t |-> "text", doc |-> doc]

\* obj.get(key, default): AttributeError unless obj is a dict
Get(obj, key, default) ==
    IF obj.t # "dict" THEN Raise
    ELSE IF key \in DOMAIN obj.d THEN obj.d[key] ELSE default

\* str(v) inside an f-string
Fmt(v) == IF v.t = "none" THEN <<"N", "o", "n", "e">> ELSE v.s

IsSpace(c) == c = " "

RECURSIVE LStrip(_)
LStrip(s) == IF s # <<>> /\ IsSpace(Head(s)) THEN LStrip(Tail(s)) ELSE s

RECURSIVE RStrip(_)
RStrip(s) ==
    IF s # <<>> /\ IsSpace(s[Len(s)]) THEN RStrip(SubSeq(s, 1, Len(s) - 1)) ELSE s

\* str.strip()
Strip(s) == RStrip(LStrip(s))

RECURSIVE Flatten(_)
Flatten(ss) == IF ss = <<>> THEN <<>> ELSE Head(ss) \o Flatten(Tail(ss))

RECURSIVE SetToSeq(_)
SetToSeq(S) ==
    IF S = {} THEN <<>>
    ELSE LET x == CHOOSE y \in S : TRUE IN <<x>> \o SetToSeq(S \ {x})

\* the items a for loop visits, as a list: a dict gives its keys; TypeError
\* when the value is None
Iterate(v) ==
    CASE v.t = "list" -> v
      [] v.t = "dict" -> PyList([i \in 1..Cardinality(DOMAIN v.d) |->
                                    PyStr(SetToSeq(DOMAIN v.d)[i])])
      [] OTHER        -> Raise

-----------------------------------------------------------------------------
(* The fetched document as an XML tree, children in document order *)

NameKinds == {"absent", "empty", "text"}
AffKinds == {"empty", "noaff", "Lab X"}
ForeText == <<"A", "l">>
LastText == <<"D", "o", "e">>

SeqsUpTo(S, n) == UNION {[1..k -> S] : k \in 0..n}

\* <Author>: empty, or a node with ForeName, LastName and AffiliationInfo children
EmptyAuthor == [kind |-> "empty", fore |-> "absent", last |-> "absent", affs |-> <<>>]
PlainAuthor == [kind |-> "node", fore |-> "text", last |-> "text",
                affs |-> <<"Lab Y", "Lab Z">>]
Authors ==
    {EmptyAuthor} \cup
    [kind : {"node"}, fore : NameKinds, last : NameKinds,
     affs : SeqsUpTo(AffKinds, MaxAffs)]

\* the sequences of up to n entries in which at most one differs from plain
OneVaries(S, plain, n) ==
    {<<>>} \cup
    {[i \in 1..m |-> IF i = k THEN a ELSE plain] :
        <<m, k, a>> \in {t \in (1..n) \X (1..n) \X S : t[2] <= t[1]}}

\* the Author children of an AuthorList
AuthorLists == OneVaries(Authors, PlainAuthor, MaxAuthors)

\* <PubmedArticle>: how deep the citation path goes, then title and author list
PathShapes == {"empty", "nocit", "emptycit", "noart", "emptyart"}
TitleKinds == {"absent", "empty", "Study A"}

ShallowArticle(shape) ==
    [shape |-> shape, title |-> "absent", al |-> "absent", authors |-> <<>>]
PlainArticle ==
    [shape |-> "art", title |-> "Study B", al |-> "absent", authors |-> <<>>]
ShallowArticles == {ShallowArticle(s) : s \in PathShapes}
TitledArticles ==
    [shape : {"art"}, title : TitleKinds, al : {"absent", "empty"}, authors : {<<>>}]
AuthoredArticles ==
    [shape : {"art"}, title : TitleKinds, al : {"node"}, authors : AuthorLists]
Articles == ShallowArticles \cup TitledArticles \cup AuthoredArticles

\* a document: unparseable text; another root element; or an article set
GarbledDoc == [wf |-> FALSE, root |-> "none", book |-> FALSE, articles |-> <<>>]
ErrorDoc == [wf |-> TRUE, root |-> "eFetchResult", book |-> FALSE, articles |-> <<>>]
SetDocs(A) ==
    [wf : {TRUE}, root : {"PubmedArticleSet"}, book : BOOLEAN,
     articles : OneVaries(A, PlainArticle, MaxArticles)]
DocsOver(A) == {GarbledDoc, ErrorDoc} \cup SetDocs(A)

\* the documents of the pipeline runs: every path shape and title, one
\* article with authors
PipeArticles ==
    ShallowArticles \cup TitledArticles \cup
    {[shape |-> "art", title |-> "Study A", al |-> "node",
      authors |-> <<PlainAuthor, PlainAuthor>>]}

\* identifiers, and the idlist of an esearch answer (at most retmax long)
IdSet == {<<"1", "1">>, <<"2">>}
IdLists == SeqsUpTo(IdSet, IF MaxIds < RetMax THEN MaxIds ELSE RetMax)

Statuses == {HTTP_OK, 404, 500}

\* esearch bodies: not JSON; {"error": ..}; {"esearchresult": {"ERROR": ..}};
\* {"esearchresult": {"idlist": [..]}}
SearchBodies ==
    {[t |-> "garbled"],
     PyDict("error" :> PyStr("API rate limit exceeded")),
     PyDict("esearchresult" :> PyDict("ERROR" :> PyStr("Invalid db name")))}
    \cup {PyDict("esearchresult" :> PyDict("idlist" :> PyList(ids))) : ids \in IdLists}
SearchResponses == [status : Statuses, body : SearchBodies]

\* efetch responses: any document with 200; an error status with an error
\* page or with a document all the same
FetchResponses ==
    [status : {HTTP_OK}, text : DocsOver(PipeArticles)] \cup
    [status : Statuses \ {HTTP_OK},
     text : {GarbledDoc,
             [wf |-> TRUE, root |-> "PubmedArticleSet", book |-> FALSE,
              articles |-> <<PlainArticle, PlainArticle>>]}]

\* pubmed_results.json before the run: none, or an earlier run's output
OldRecord == [title |-> [j |-> "string", s |-> "Old Study"], authors |-> <<>>,
              affiliations |-> <<>>]
OldFiles == {[written |-> FALSE, content |-> c] : c \in {<<>>, <<OldRecord>>}}

\* the article nodes under PubmedArticleSet -> PubmedArticle
ArticleNodes(doc) ==
    IF doc.wf /\ doc.root = "PubmedArticleSet" THEN doc.articles ELSE <<>>

-----------------------------------------------------------------------------
(* xmltodict.parse on the tree *)

\* children with one tag: absent, the single value, or the list of values
Children(tag, vals) ==
    IF vals = <<>> THEN <<>>
    ELSE IF Len(vals) = 1 THEN tag :> vals[1]
    ELSE tag :> PyList(vals)

NameValue(tag, kind, text) ==
    CASE kind = "absent" -> <<>>
      [] kind = "empty"  -> tag :> PyNone
      [] OTHER           -> tag :> PyStr(text)

AffInfoValue(k) ==
    CASE k = "empty" -> PyNone
      [] k = "noaff" -> PyDict("Identifier" :> PyStr("ror"))
      [] OTHER       -> PyDict("Affiliation" :> PyStr(k))

AuthorValue(a) ==
    IF a.kind = "empty" THEN PyNone
    ELSE PyDict(("@ValidYN" :> PyStr("Y"))
                @@ NameValue("LastName", a.last, LastText)
                @@ NameValue("ForeName", a.fore, ForeText)
                @@ Children("AffiliationInfo",
                            [i \in 1..Len(a.affs) |-> AffInfoValue(a.affs[i])]))

AuthorListValue(art) ==
    CASE art.al = "absent" -> <<>>
      [] art.al = "empty"  -> "AuthorList" :> PyNone
      [] OTHER ->
           "AuthorList" :>
               PyDict(("@CompleteYN" :> PyStr("Y"))
                      @@ Children("Author",
                                  [i \in 1..Len(art.authors) |->
                                      AuthorValue(art.authors[i])]))

TitleValue(art) ==
    CASE art.title = "absent" -> <<>>
      [] art.title = "empty"  -> "ArticleTitle" :> PyNone
      [] OTHER                -> "ArticleTitle" :> PyStr(art.title)

ArticleValue(art) ==
    CASE art.shape = "empty"    -> PyNone
      [] art.shape = "nocit"    -> PyDict("PubmedData" :> PyNone)
      [] art.shape = "emptycit" -> PyDict("MedlineCitation" :> PyNone)
      [] art.shape = "noart" ->
           PyDict("MedlineCitation" :> PyDict("PMID" :> PyStr("1")))
      [] art.shape = "emptyart" ->
           PyDict("MedlineCitation" :> PyDict("Article" :> PyNone))
      [] OTHER ->
           PyDict("MedlineCitation" :>
                    PyDict("Article" :>
                             PyDict(("Journal" :> PyNone)
                                    @@ TitleValue(art)
                                    @@ AuthorListValue(art))))

XmlToDict(doc) ==
    LET kids == (IF doc.book THEN "PubmedBookArticle" :> PyNone ELSE <<>>)
                @@ Children("PubmedArticle",
                            [i \in 1..Len(doc.articles) |->
                                ArticleValue(doc.articles[i])])
    IN  PyDict(doc.root :> (IF kids = <<>> THEN PyNone ELSE PyDict(kids)))

-----------------------------------------------------------------------------
(* parse_pubmed_xml, lines 46-91 *)

\* lines 69-71: the display name of one author dict
full_name(author) ==
    LET last_name == Get(author, "LastName", PyStr(<<>>))
        fore_name == Get(author, "ForeName", PyStr(<<>>))
    IN  Strip(Fmt(fore_name) \o <<" ">> \o Fmt(last_name))

\* faulty variant: a single author dict is taken as a list of one
ExtractAuthors_CoercesSingle(author_list) ==
    LET entries == IF author_list.t = "dict" THEN <<author_list>>
                   ELSE IF author_list.t = "list" THEN author_list.xs
                   ELSE <<>>
    IN  IF \E i \in 1..Len(entries) : entries[i].t # "dict" THEN Raise
        ELSE PyList(SelectSeq([i \in 1..Len(entries) |-> full_name(entries[i])],
                              LAMBDA n : n # <<>>))

\* lines 66-73: the authors of one article
ExtractAuthors(author_list) ==
    IF author_list.t # "list" THEN PyList(<<>>)
    ELSE IF \E i \in 1..Len(author_list.xs) : author_list.xs[i].t # "dict"
         THEN Raise
    ELSE PyList(SelectSeq([i \in 1..Len(author_list.xs) |->
                              full_name(author_list.xs[i])],
                          LAMBDA n : n # <<>>))

\* lines 81-83: the Affiliation values of one author's AffiliationInfo list;
\* "Affiliation" in aff is a TypeError when aff is None
AffiliationsOf(affiliation_info) ==
    IF affiliation_info.t # "list" THEN PyList(<<>>)
    ELSE IF \E i \in 1..Len(affiliation_info.xs) :
                affiliation_info.xs[i].t # "dict"
         THEN Raise
    ELSE LET has(aff) == "Affiliation" \in DOMAIN aff.d
             kept == SelectSeq(affiliation_info.xs, has)
         IN  PyList([i \in 1..Len(kept) |-> kept[i].d["Affiliation"].s])

\* lines 76-83: the pooled affiliations of one article
ExtractAffiliations(author_list) ==
    IF ~(author_list.t = "list" /\ author_list.xs # <<>>) THEN PyList(<<>>)
    ELSE LET per == [i \in 1..Len(author_list.xs) |->
                        AffiliationsOf(Get(author_list.xs[i], "AffiliationInfo",
                                           PyList(<<>>)))]
         IN  IF \E i \in 1..Len(per) : per[i] = Raise THEN Raise
             ELSE PyList(Flatten([i \in 1..Len(per) |-> per[i].xs]))

\* lines 58-89: the body of the loop over the articles
ExtractRecord(article) ==
    LET medline_citation == Get(article, "MedlineCitation", EmptyDict)
        article_info ==
            IF medline_citation = Raise THEN Raise
            ELSE Get(medline_citation, "Article", EmptyDict)
        title ==
            IF article_info = Raise THEN Raise
            ELSE Get(article_info, "ArticleTitle", PyStr("No Title Found"))
        author_node ==
            IF title = Raise THEN Raise
            ELSE Get(article_info, "AuthorList", EmptyDict)
        author_list ==
            IF author_node = Raise THEN Raise
            ELSE Get(author_node, "Author", PyList(<<>>))
        authors ==
            IF author_list = Raise THEN Raise ELSE ExtractAuthors(author_list)
        affiliations ==
            IF authors = Raise THEN Raise ELSE ExtractAffiliations(author_list)
    IN  IF affiliations = Raise THEN Raise
        ELSE [title |-> title, authors |-> authors.xs,
              affiliations |-> affiliations.xs]

\* faulty variant: every record is appended twice
Collect_Twice(recs) ==
    IF \E i \in 1..Len(recs) : recs[i] = Raise THEN Raise
    ELSE PyList(Flatten([i \in 1..Len(recs) |-> <<recs[i], recs[i]>>]))

\* lines 55, 85-91: extracted_data, unless the body of the loop raised
Collect(recs) ==
    IF \E i \in 1..Len(recs) : recs[i] = Raise THEN Raise ELSE PyList(recs)

\* lines 53-91: from the parsed dictionary to the records
ExtractAll(parsed) ==
    LET set == Get(parsed, "PubmedArticleSet", EmptyDict)
        articles ==
            IF set = Raise THEN Raise ELSE Get(set, "PubmedArticle", PyList(<<>>))
        items == IF articles = Raise THEN Raise ELSE Iterate(articles)
    IN  IF items = Raise THEN Raise
        ELSE Collect([i \in 1..Len(items.xs) |-> ExtractRecord(items.xs[i])])

\* line 48: xmltodict.parse raises on None and on text that is not XML
Parses(xml_data) == xml_data.t = "text" /\ xml_data.doc.wf

\* line 51: the dictionary is printed once the text is parsed
DebugPrint(xml_data) ==
    IF Parses(xml_data) THEN <<"DEBUG: Parsed XML to Dictionary Format:">> ELSE <<>>

\* lines 46-91
parse_pubmed_xml(xml_data) ==
    IF ~Parses(xml_data) THEN Raise ELSE ExtractAll(XmlToDict(xml_data.doc))

-----------------------------------------------------------------------------
(* parse_pubmed_xml called directly on a document *)

InitExtract ==
    /\ pc = "call_parse"
    /\ paper_ids = <<>>
    /\ searchResp = PyNone
    /\ fetchResp = PyNone
    /\ details \in {Text(d) : d \in DocsOver(Articles)}
    /\ parsed_data = <<>>
    /\ file \in OldFiles
    /\ console = <<>>
    /\ requests = <<>>
    /\ invoked = {}

CallParse ==
    /\ pc = "call_parse"
    /\ invoked' = invoked \cup {"parse_pubmed_xml"}
    /\ console' = console \o DebugPrint(details)
    /\ LET r == parse_pubmed_xml(details)
       IN  IF r = Raise
           THEN pc' = "raised" /\ UNCHANGED parsed_data
           ELSE pc' = "returned" /\ parsed_data' = r.xs
    /\ UNCHANGED <<paper_ids, searchResp, fetchResp, details, file, requests>>

NextExtract == CallParse

SpecExtract == InitExtract /\ [][NextExtract]_vars

-----------------------------------------------------------------------------
(* fetch_pubmed_papers, fetch_paper_details, save_to_json *)

Query == "cancer genomics"

\* lines 8-16
SearchRequest(query) ==
    [url |-> "esearch.fcgi",
     params |-> [db |-> "pubmed", term |-> query, retmode |-> "json",
                 retmax |-> RetMax]]

\* faulty variant: the status is not looked at
fetch_pubmed_papers_IgnoresStatus(response) ==
    IF response.body.t = "garbled" THEN [val |-> Raise, out |-> <<>>]
    ELSE LET result == Get(response.body, "esearchresult", EmptyDict)
         IN  [val |-> Get(result, "idlist", PyList(<<>>)), out |-> <<>>]

\* lines 18-23, on the response to the request of line 16; response.json()
\* raises when the body is not JSON
fetch_pubmed_papers(response) ==
    IF response.status = HTTP_OK
    THEN IF response.body.t = "garbled" THEN [val |-> Raise, out |-> <<>>]
         ELSE LET result == Get(response.body, "esearchresult", EmptyDict)
              IN  [val |-> Get(result, "idlist", PyList(<<>>)), out |-> <<>>]
    ELSE [val |-> PyList(<<>>), out |-> <<"Error fetching data from PubMed:">>]

\* sep.join(ss)
RECURSIVE Join(_, _)
Join(sep, ss) ==
    IF ss = <<>> THEN <<>>
    ELSE IF Len(ss) = 1 THEN ss[1]
    ELSE ss[1] \o sep \o Join(sep, Tail(ss))

\* lines 31-38
FetchRequest(ids) ==
    [url |-> "efetch.fcgi",
     params |-> [db |-> "pubmed", id |-> Join(<<",">>, ids), retmode |-> "xml"]]

\* faulty variant: the request is sent for an empty identifier list too
DetailRequests_Always(ids) == <<FetchRequest(ids)>>

\* lines 27-29: the requests fetch_paper_details issues for these identifiers
DetailRequests(ids) == IF ids = <<>> THEN <<>> ELSE <<FetchRequest(ids)>>

\* the response fetch_paper_details receives: none without a request
Received(ids, response) == IF DetailRequests(ids) = <<>> THEN PyNone ELSE response

\* lines 25-44; response answers the request of line 38 (none is read when
\* the identifiers are empty)
fetch_paper_details(ids, response) ==
    IF ids = <<>> THEN [val |-> PyNone, out |-> <<"No paper IDs found.">>]
    ELSE IF response.status = HTTP_OK
         THEN [val |-> Text(response.text), out |-> <<>>]
    ELSE [val |-> PyNone, out |-> <<"Error fetching details from PubMed:">>]

\* json.dump of one record: None becomes null, the lists become arrays
JsonValue(v) == IF v.t = "none" THEN [j |-> "null"] ELSE [j |-> "string", s |-> v.s]
JsonRecord(r) ==
    [title |-> JsonValue(r.title), authors |-> r.authors,
     affiliations |-> r.affiliations]

\* faulty variant: an empty result leaves the earlier file in place
save_to_json_SkipsEmpty(data) ==
    IF data = <<>> THEN file
    ELSE [written |-> TRUE, content |-> [i \in 1..Len(data) |-> JsonRecord(data[i])]]

\* lines 93-97: the file is opened with "w" and holds the dumped array
save_to_json(data) ==
    [written |-> TRUE, content |-> [i \in 1..Len(data) |-> JsonRecord(data[i])]]

-----------------------------------------------------------------------------
(* The __main__ block, lines 99-123 *)

Init ==
    /\ pc = "main"
    /\ paper_ids = <<>>
    /\ searchResp = PyNone
    /\ fetchResp = PyNone
    /\ details = PyNone
    /\ parsed_data = <<>>
    /\ file \in OldFiles
    /\ console = <<>>
    /\ requests = <<>>
    /\ invoked = {}

\* lines 104-108
MainSearch ==
    /\ pc = "main"
    /\ \E response \in SearchResponses :
         LET r == fetch_pubmed_papers(response)
         IN  /\ searchResp' = response
             /\ requests' = Append(requests, SearchRequest(Query))
             /\ invoked' = invoked \cup {"fetch_pubmed_papers"}
             /\ IF r.val = Raise
                THEN /\ pc' = "raised"
                     /\ console' = console \o <<"Searching PubMed for:">>
                     /\ UNCHANGED paper_ids
                ELSE /\ pc' = "ids"
                     /\ paper_ids' = r.val.xs
                     /\ console' = console \o <<"Searching PubMed for:">> \o r.out
                                       \o <<"Fetched Paper IDs:">>
    /\ UNCHANGED <<fetchResp, details, parsed_data, file>>

\* line 110, the identifiers are empty: nothing is left to run
MainNoIds ==
    /\ pc = "ids"
    /\ paper_ids = <<>>
    /\ pc' = "done"
    /\ UNCHANGED <<paper_ids, searchResp, fetchResp, details, parsed_data, file,
                   console, requests, invoked>>

\* lines 110-112
MainFetchDetails ==
    /\ pc = "ids"
    /\ paper_ids # <<>>
    /\ \E response \in FetchResponses :
         LET r == fetch_paper_details(paper_ids, response)
         IN  /\ details' = r.val
             /\ fetchResp' = Received(paper_ids, response)
             /\ console' = console \o r.out \o <<"Extracting Paper Details...">>
    /\ requests' = requests \o DetailRequests(paper_ids)
    /\ invoked' = invoked \cup {"fetch_paper_details"}
    /\ pc' = "parse"
    /\ UNCHANGED <<paper_ids, searchResp, parsed_data, file>>

\* line 114
MainParse ==
    /\ pc = "parse"
    /\ invoked' = invoked \cup {"parse_pubmed_xml"}
    /\ console' = console \o DebugPrint(details)
    /\ LET r == parse_pubmed_xml(details)
       IN  IF r = Raise
           THEN pc' = "raised" /\ UNCHANGED parsed_data
           ELSE pc' = "print" /\ parsed_data' = r.xs
    /\ UNCHANGED <<paper_ids, searchResp, fetchResp, details, file, requests>>

\* lines 116-120
MainPrint ==
    /\ pc = "print"
    /\ console' = console \o [i \in 1..Len(parsed_data) |-> "Paper"]
    /\ pc' = "save"
    /\ UNCHANGED <<paper_ids, searchResp, fetchResp, details, parsed_data, file,
                   requests, invoked>>

\* line 123
MainSave ==
    /\ pc = "save"
    /\ file' = save_to_json(parsed_data)
    /\ console' = Append(console, "Data saved successfully")
    /\ invoked' = invoked \cup {"save_to_json"}
    /\ pc' = "done"
    /\ UNCHANGED <<paper_ids, searchResp, fetchResp, details, parsed_data,
                   requests>>

Next ==
    \/ MainSearch
    \/ MainNoIds
    \/ MainFetchDetails
    \/ MainParse
    \/ MainPrint
    \/ MainSave

Spec == Init /\ [][Next]_vars

-----------------------------------------------------------------------------
(* fetch_paper_details called directly, on any identifier sequence *)

InitDetails ==
    /\ pc = "call_details"
    /\ paper_ids \in IdLists
    /\ searchResp = PyNone
    /\ fetchResp = PyNone
    /\ details = PyNone
    /\ parsed_data = <<>>
    /\ file \in OldFiles
    /\ console = <<>>
    /\ requests = <<>>
    /\ invoked = {}

CallDetails ==
    /\ pc = "call_details"
    /\ \E response \in FetchResponses :
         LET r == fetch_paper_details(paper_ids, response)
         IN  /\ details' = r.val
             /\ fetchResp' = Received(paper_ids, response)
             /\ console' = console \o r.out
    /\ requests' = requests \o DetailRequests(paper_ids)
    /\ invoked' = invoked \cup {"fetch_paper_details"}
    /\ pc' = "returned"
    /\ UNCHANGED <<paper_ids, searchResp, parsed_data, file>>

NextDetails == CallDetails

SpecDetails == InitDetails /\ [][NextDetails]_vars

-----------------------------------------------------------------------------
(* Properties *)

Range(f) == {f[i] : i \in DOMAIN f}
SearchRequests == SelectSeq(requests, LAMBDA r : r.url = "esearch.fcgi")
FetchRequests == SelectSeq(requests, LAMBDA r : r.url = "efetch.fcgi")

\* the run is past a completed parse_pubmed_xml
Extracted == "parse_pubmed_xml" \in invoked /\ pc \in {"print", "save", "done", "returned"}

\* C1: whenever Search returned no identifiers, the run ends having printed the
\* "no identifiers" notice and having made no detail-fetch request.
C1_EmptySearchEndsWithNotice ==
    (pc = "done" /\ paper_ids = <<>>) =>
        /\ "No paper IDs found." \in Range(console)
        /\ FetchRequests = <<>>

\* C3: when Search returned identifiers and the Detail Fetcher returned the
\* absent document, the Extractor is never invoked and the run raises no error.
C3_FetchFailureSkipsExtractor ==
    (paper_ids # <<>> /\ "fetch_paper_details" \in invoked /\ details = PyNone) =>
        /\ "parse_pubmed_xml" \notin invoked
        /\ pc # "raised"

\* the file holds the JSON array of these records
HoldsRecords(f, recs) ==
    /\ f.written
    /\ Len(f.content) = Len(recs)
    /\ \A i \in 1..Len(recs) :
          /\ f.content[i].authors = recs[i].authors
          /\ f.content[i].affiliations = recs[i].affiliations
          /\ f.content[i].title =
                IF recs[i].title = PyNone THEN [j |-> "null"]
                ELSE [j |-> "string", s |-> recs[i].title.s]

\* C4 as claimed: every run that exits normally has overwritten the output file
\* with the JSON array of its records, also when no identifiers were found.
C4_EveryNormalExitWritesFile ==
    pc = "done" => HoldsRecords(file, parsed_data)

\* C4 as amended: a run that exits normally after Search returned identifiers
\* has overwritten the output file with the JSON array of its records, whether
\* or not any record was found; a run whose Search returned no identifiers
\* exits normally without touching the file.
C4_NormalExitWithIdsWritesFile ==
    pc = "done" =>
        IF paper_ids # <<>> THEN HoldsRecords(file, parsed_data)
        ELSE file \in OldFiles

C4_Witness ==
    /\ pc = "done"
    /\ paper_ids # <<>>
    /\ parsed_data = <<>>
    /\ file = [written |-> TRUE, content |-> <<>>]

\* C5 as claimed: the number of records produced is at most the number of
\* identifiers passed to the Detail Fetcher, whatever document came back.
C5_RecordsAtMostIdentifiers ==
    (Extracted /\ pc # "returned") => Len(parsed_data) <= Len(paper_ids)

\* C5 as amended: the number of records produced is at most the number of
\* article nodes of the returned document, and so at most the number of
\* identifiers whenever the document holds no more article nodes than
\* identifiers were passed.
C5_RecordsAtMostArticleNodes ==
    (Extracted /\ pc # "returned") =>
        LET nodes == ArticleNodes(details.doc)
        IN  /\ Len(parsed_data) <= Len(nodes)
            /\ Len(nodes) <= Len(paper_ids) => Len(parsed_data) <= Len(paper_ids)

C5_Witness ==
    /\ Extracted
    /\ pc = "done"
    /\ Len(paper_ids) = 2
    /\ Len(ArticleNodes(details.doc)) = 2
    /\ Len(parsed_data) = 2

\* the identifier list of an esearch body, empty when a field is missing
IdListOf(body) ==
    IF "esearchresult" \in DOMAIN body.d
       /\ "idlist" \in DOMAIN body.d["esearchresult"].d
    THEN body.d["esearchresult"].d["idlist"].xs
    ELSE <<>>

RECURSIVE SplitComma(_, _)
SplitComma(s, cur) ==
    IF s = <<>> THEN <<cur>>
    ELSE IF Head(s) = "," THEN <<cur>> \o SplitComma(Tail(s), <<>>)
    ELSE SplitComma(Tail(s), Append(cur, Head(s)))

\* C7: fetch_paper_details on an empty identifier sequence returns the absent
\* sentinel with the "no identifiers" notice and no request; on a non-empty one
\* it makes exactly one request carrying the identifiers comma-joined in order
\* and returns the document on a success status, the absent sentinel with a
\* diagnostic notice on any other status.
C7_DetailFetcherContract ==
    pc = "returned" =>
        IF paper_ids = <<>>
        THEN /\ details = PyNone
             /\ console = <<"No paper IDs found.">>
             /\ requests = <<>>
        ELSE /\ Len(requests) = 1
             /\ requests[1].url = "efetch.fcgi"
             /\ SplitComma(requests[1].params.id, <<>>) = paper_ids
             /\ IF fetchResp.status = HTTP_OK
                THEN details = Text(fetchResp.text) /\ console = <<>>
                ELSE /\ details = PyNone
                     /\ console = <<"Error fetching details from PubMed:">>

C7_Witness ==
    /\ pc = "returned"
    /\ Len(paper_ids) = 2
    /\ paper_ids[1] # paper_ids[2]
    /\ fetchResp.status # HTTP_OK
    /\ fetchResp.text.wf
    /\ details = PyNone
    /\ Len(requests) = 1

\* the article nodes of the document handed to parse_pubmed_xml
Nodes == ArticleNodes(details.doc)

\* the article node has its whole citation path and a title
Complete(a) == a.shape = "art" /\ a.title \in {"Study A", "Study B"} /\ a.al = "absent"

\* C2: for a parseable document with N article nodes (a single node
\* included; here N >= 1 and every node complete), parse_pubmed_xml returns
\* exactly N records, the i-th one built from the i-th node.
C2_OneRecordPerArticleNode ==
    (pc \in {"returned", "raised"} /\ details.doc.wf /\ Len(Nodes) >= 1
        /\ \A i \in 1..Len(Nodes) : Complete(Nodes[i])) =>
        /\ pc = "returned"
        /\ Len(parsed_data) = Len(Nodes)
        /\ \A i \in 1..Len(Nodes) : parsed_data[i].title = PyStr(Nodes[i].title)

TitleMissing(a) == a.shape # "art" \/ a.title = "absent"
AuthorsMissing(a) == a.shape # "art" \/ a.al # "node" \/ a.authors = <<>>

\* C8: for every article node of a parseable document (here: of one whose
\* article nodes come as a list, so that the loop reaches each of them),
\* whichever nested paths are absent or empty, the Extractor does not raise
\* and emits a record: the title is "No Title Found" when the title path is
\* missing, authors and affiliations are empty when their paths are missing.
C8_MissingPathsDegrade ==
    (pc \in {"returned", "raised"} /\ details.doc.wf /\ Len(Nodes) >= 2) =>
        /\ pc = "returned"
        /\ Len(parsed_data) = Len(Nodes)
        /\ \A i \in 1..Len(Nodes) :
              /\ TitleMissing(Nodes[i]) =>
                    parsed_data[i].title = PyStr("No Title Found")
              /\ AuthorsMissing(Nodes[i]) =>
                    /\ parsed_data[i].authors = <<>>
                    /\ parsed_data[i].affiliations = <<>>

\* the author list of the article holds one Author node, not a list
SingleAuthor(a) == a.shape = "art" /\ a.al = "node" /\ Len(a.authors) = 1

\* C9: the record of an article whose author list holds a single author node
\* has no authors and no affiliations, even when that author carries a name
\* and affiliations.
C9_SingleAuthorIsDropped ==
    pc = "returned" =>
        \A i \in 1..Len(Nodes) :
            SingleAuthor(Nodes[i]) =>
                /\ i <= Len(parsed_data)
                /\ parsed_data[i].authors = <<>>
                /\ parsed_data[i].affiliations = <<>>

C9_Witness ==
    /\ pc = "returned"
    /\ \E i \in 1..Len(Nodes) :
          /\ SingleAuthor(Nodes[i])
          /\ Nodes[i].authors[1] = [kind |-> "node", fore |-> "text", last |-> "text",
                                    affs |-> <<"Lab X", "Lab X">>]
          /\ parsed_data[i].authors = <<>>
          /\ parsed_data[i].affiliations = <<>>

\* the name the claim gives an author entry: given name, a space, family
\* name, trimmed; a name that is absent or empty contributes nothing
NameText(kind, text) == IF kind = "text" THEN text ELSE <<>>
DisplayName(a) ==
    Strip(NameText(a.fore, ForeText) \o <<" ">> \o NameText(a.last, LastText))
ExpectedAuthors(as) ==
    SelectSeq([i \in 1..Len(as) |-> DisplayName(as[i])], LAMBDA n : n # <<>>)

\* the affiliation strings of the entries whose AffiliationInfo is a list
ExpectedAffiliations(as) ==
    Flatten([i \in 1..Len(as) |->
                IF Len(as[i].affs) < 2 THEN <<>>
                ELSE SelectSeq(as[i].affs, LAMBDA k : k \notin {"empty", "noaff"})])

\* C10: for an article with a list-form author list, authors is the
\* document-order sequence of the trimmed "<given-name> <family-name>" strings
\* that are not empty, and the list-form affiliation entries of every author,
\* nameless ones included, are pooled without de-duplication.
C10_AuthorsAreTrimmedNames ==
    pc = "returned" =>
        \A i \in 1..Len(Nodes) :
            (Nodes[i].shape = "art" /\ Nodes[i].al = "node"
                /\ Len(Nodes[i].authors) >= 2) =>
                /\ parsed_data[i].authors = ExpectedAuthors(Nodes[i].authors)
                /\ parsed_data[i].affiliations =
                       ExpectedAffiliations(Nodes[i].authors)

=============================================================================
